---------------------------- MODULE Spec2Model ----------------------------
(***************************************************************************)
(* Model of src/app.py: the Flask handler process_contract and the helper  *)
(* extract_text_from_pdf.  One handler invocation is a sequence of steps,  *)
(* one step per call that leaves the process (store select, blob download, *)
(* page extraction / OCR, store update).  Several invocations may be in    *)
(* flight at once (a threaded WSGI server, several container instances).   *)
(*                                                                         *)
(* Python values:                                                          *)
(*   None / a value      <<>> / <<v>>            (None, Some(v))           *)
(*   short str (ids, status, paths)   a TLA+ string                        *)
(*   document text (str)              a sequence of one-character strings  *)
(***************************************************************************)
EXTENDS Integers, Sequences, FiniteSets, TLC

(* ---------------------------- bounds ---------------------------------- *)
MaxPages == 2        \* longest document drawn for a download
MaxTime == 2         \* the UTC clock runs 0..MaxTime

(* ------------------------ program constants --------------------------- *)
OCR_THRESHOLD == 50

(* ------------------------- Python values ------------------------------ *)
None == <<>>
Some(v) == <<v>>

\* Python truthiness of an optional short string: None and "" are falsy.
Truthy(o) == o # None /\ o[1] # ""

Rep(c, n) == [i \in 1..n |-> c]

SetMin(S) == CHOOSE x \in S : \A y \in S : x <= y
SetMax(S) == CHOOSE x \in S : \A y \in S : x >= y

Whitespace == {" ", "\n", "\t", "\r", "\f"}

\* str.strip(): drop leading and trailing whitespace.
Strip(s) ==
    LET keep == {i \in 1..Len(s) : s[i] \notin Whitespace}
    IN  IF keep = {} THEN <<>> ELSE SubSeq(s, SetMin(keep), SetMax(keep))

Digit(d) == CASE d = 0 -> "0" [] d = 1 -> "1" [] d = 2 -> "2" [] d = 3 -> "3"
              [] d = 4 -> "4" [] d = 5 -> "5" [] d = 6 -> "6" [] d = 7 -> "7"
              [] d = 8 -> "8" [] d = 9 -> "9"

\* str(n) of a natural number, as f-string interpolation produces it.
RECURSIVE Str(_)
Str(n) == IF n < 10 THEN <<Digit(n)>> ELSE Str(n \div 10) \o <<Digit(n % 10)>>

\* datetime.utcnow().isoformat(): a string rendering of the clock reading.
IsoFormat(t) == <<"iso">> \o Str(t)

(* --------------------------- input domains ---------------------------- *)
Procs == {1, 2}

\* contract_id as extracted from the webhook (lines 112-128).
TriggerIds == {None, Some(""), Some("c1"), Some("c2")}
\* upload_status hint as extracted from the webhook.
TriggerHints == {None, Some(""), Some("processing"), Some("completed")}

Native50 == Rep("a", 50)
Native49 == Rep("b", 49)
NativePadded == <<" ">> \o Rep("c", 49) \o <<"\n">>
PageTexts == {Native50, Native49, NativePadded}

RECURSIVE SeqsUpTo(_, _)
SeqsUpTo(S, n) ==
    IF n = 0 THEN {<<>>}
    ELSE LET shorter == SeqsUpTo(S, n - 1)
         IN  shorter \cup {Append(s, x) : s \in {t \in shorter : Len(t) = n - 1}, x \in S}

\* A document is the sequence of its pages' native text layers.
Docs == SeqsUpTo(PageTexts, MaxPages)
OcrTexts == {<<"o", "c", "r">>, <<"x", " ", " ", "y">>}

Statuses == {None, Some("pending"), Some("processing"), Some("completed"), Some("failed")}
Paths == {None, Some(""), Some("https://blob/c1.pdf")}

VARIABLES
    store,   \* the contracts table: a set of rows, at most one per id
    now,     \* the UTC clock
    call     \* call[p]: the locals of handler invocation p and what it did so far

vars == <<store, now, call>>

(* ------------------------------ store --------------------------------- *)
Row(id, path, status, raw, at) ==
    [id |-> id, storage_path |-> path, upload_status |-> status,
     raw_text |-> raw, processed_at |-> at]

\* supabase.table('contracts').select('*').eq('id', contract_id).execute().data
StoreSelect(table, id) == {r \in table : r.id = id}

\* Variant: a conditional update that only touches rows still in processing.
StoreUpdateIfProcessing(table, id, data) ==
    {IF r.id = id /\ r.upload_status = Some("processing")
        THEN [r EXCEPT !.raw_text = data.raw_text,
                       !.upload_status = data.upload_status,
                       !.processed_at = data.processed_at]
        ELSE r : r \in table}

\* supabase.table('contracts').update(update_data).eq('id', contract_id).execute()
StoreUpdate(table, id, data) ==
    {IF r.id = id
        THEN [r EXCEPT !.raw_text = data.raw_text,
                       !.upload_status = data.upload_status,
                       !.processed_at = data.processed_at]
        ELSE r : r \in table}

(* ----------------------------- handler -------------------------------- *)
Response(code, success, message, error, text_length) ==
    [code |-> code, success |-> success, message |-> message,
     error |-> error, text_length |-> text_length]

Idle ==
    [pc |-> "idle", contract_id |-> None, upload_status |-> None,
     result |-> None, contract |-> None, doc |-> <<>>, page_num |-> 0, text |-> <<>>,
     response |-> None,
     reads |-> 0, writes |-> 0, downloads |-> 0, ocr_calls |-> 0,
     update_data |-> None, rows |-> None,
     resolved |-> <<>>]

\* Variant: the identifier test written as "contract_id is None".
IdMissingOnlyNone(contract_id) == contract_id = None

\* line 132: if not contract_id
IdMissing(contract_id) == ~Truthy(contract_id)

\* Variant: the webhook hint is never looked at.
HintSkipsNever(upload_status) == FALSE

\* line 141: if upload_status and upload_status != "processing"
HintSkips(upload_status) == Truthy(upload_status) /\ upload_status[1] # "processing"

\* Variant: the stored status is not double-checked.
GateOutcomeNoStatusCheck(data) ==
    IF data = {} THEN "not_found"
    ELSE LET contract == CHOOSE r \in data : TRUE
         IN  IF ~Truthy(contract.storage_path) THEN "no_storage" ELSE "admit"

\* Variant: an empty select result is taken for a contract without status.
GateOutcomeMissingAsSkip(data) ==
    IF data = {} THEN "skip"
    ELSE LET contract == CHOOSE r \in data : TRUE
         IN  IF contract.upload_status # Some("processing") THEN "skip"
             ELSE IF ~Truthy(contract.storage_path) THEN "no_storage"
             ELSE "admit"

\* Variant: the storage reference is not checked before the download.
GateOutcomeNoPathCheck(data) ==
    IF data = {} THEN "not_found"
    ELSE LET contract == CHOOSE r \in data : TRUE
         IN  IF contract.upload_status # Some("processing") THEN "skip" ELSE "admit"

\* Variant: a contract still pending is admitted as well.
GateOutcomeAdmitsPending(data) ==
    IF data = {} THEN "not_found"
    ELSE LET contract == CHOOSE r \in data : TRUE
         IN  IF contract.upload_status \notin {Some("processing"), Some("pending")} THEN "skip"
             ELSE IF ~Truthy(contract.storage_path) THEN "no_storage"
             ELSE "admit"

\* Variant: a completed contract is processed again.
GateOutcomeRerunsCompleted(data) ==
    IF data = {} THEN "not_found"
    ELSE LET contract == CHOOSE r \in data : TRUE
         IN  IF contract.upload_status \notin {Some("processing"), Some("completed")} THEN "skip"
             ELSE IF ~Truthy(contract.storage_path) THEN "no_storage"
             ELSE "admit"

\* Variant: the storage reference is checked before the stored status.
GateOutcomePathFirst(data) ==
    IF data = {} THEN "not_found"
    ELSE LET contract == CHOOSE r \in data : TRUE
         IN  IF ~Truthy(contract.storage_path) THEN "no_storage"
             ELSE IF contract.upload_status # Some("processing") THEN "skip"
             ELSE "admit"

\* lines 153-183: the decision taken on the result of the select.
GateOutcome(data) ==
    IF data = {} THEN "not_found"
    ELSE LET contract == CHOOSE r \in data : TRUE
         IN  IF contract.upload_status # Some("processing") THEN "skip"
             ELSE IF ~Truthy(contract.storage_path) THEN "no_storage"
             ELSE "admit"

\* f"{db_upload_status}" of contract.get('upload_status')
ShowStatus(contract) ==
    IF contract = None \/ contract[1].upload_status = None
        THEN "None" ELSE contract[1].upload_status[1]

\* lines 155-159, 170-175, 179-183: the three early returns after the select.
GateResponse(gate, contract) ==
    CASE gate = "not_found" ->
            Response(404, FALSE, None, Some("Contract not found"), None)
      [] gate = "skip" ->
            Response(200, TRUE,
                Some(<<"Skipped - database status is ", ShowStatus(contract)>>), None, None)
      [] gate = "no_storage" ->
            Response(400, FALSE, None, Some("No storage_path found"), None)

\* lines 209-215: except Exception as e
ErrorResponse(e) == Response(500, FALSE, None, Some(e), None)

Return(p, c, response) ==
    call' = [call EXCEPT ![p] = [c EXCEPT !.pc = "done", !.response = Some(response)]]

\* lines 112-147: a POST arrives at a free worker; identifier and hint checks.
Receive(p, contract_id, upload_status) ==
    /\ call[p].pc \in {"idle", "done"}
    /\ LET c == [Idle EXCEPT !.contract_id = contract_id,
                             !.upload_status = upload_status]
       IN  IF IdMissing(contract_id)
             THEN Return(p, c, Response(400, FALSE, None, Some("contract_id is required"), None))
           ELSE IF HintSkips(upload_status)
             THEN Return(p, c, Response(200, TRUE,
                         Some(<<"Skipped - webhook status is ", upload_status[1]>>), None, None))
           ELSE call' = [call EXCEPT ![p] = [c EXCEPT !.pc = "select"]]
    /\ UNCHANGED <<store, now>>

\* lines 149-183: the select and the checks on its result.
Select(p) ==
    /\ call[p].pc = "select"
    /\ LET data     == StoreSelect(store, call[p].contract_id[1])
           contract == IF data = {} THEN None ELSE Some(CHOOSE r \in data : TRUE)
           gate     == GateOutcome(data)
           c        == [call[p] EXCEPT !.reads = @ + 1, !.result = Some(data),
                                       !.contract = contract]
       IN  IF gate = "admit"
             THEN call' = [call EXCEPT ![p] = [c EXCEPT !.pc = "download"]]
             ELSE Return(p, c, GateResponse(gate, contract))
    /\ UNCHANGED <<store, now>>

\* line 151 raising (store unreachable): caught at line 209.
SelectFails(p) ==
    /\ call[p].pc = "select"
    /\ Return(p, [call[p] EXCEPT !.reads = @ + 1], ErrorResponse("store read error"))
    /\ UNCHANGED <<store, now>>

\* lines 41-47: download succeeded and the bytes open as a document.
Download(p, d) ==
    /\ call[p].pc = "download"
    /\ call' = [call EXCEPT ![p] = [@ EXCEPT !.downloads = @ + 1, !.doc = d,
                                             !.page_num = 0, !.text = <<>>,
                                             !.pc = "pages"]]
    /\ UNCHANGED <<store, now>>

\* lines 42-46 raising: requests.get / raise_for_status / fitz.open.
DownloadFails(p, e) ==
    /\ call[p].pc = "download"
    /\ Return(p, [call[p] EXCEPT !.downloads = @ + 1], ErrorResponse(e))
    /\ UNCHANGED <<store, now>>

\* Variant: the threshold comparison written as "<=".
NeedsOcrInclusive(page_text) == Len(Strip(page_text)) <= OCR_THRESHOLD

\* line 53: len(page_text.strip()) < 50
NeedsOcr(page_text) == Len(Strip(page_text)) < OCR_THRESHOLD

\* line 61: f"\n--- Page {page_num + 1} ---\n{page_text}"
NativeSegment(page_num, page_text) ==
    <<"\n", "-", "-", "-", " ", "P", "a", "g", "e", " ">> \o Str(page_num + 1)
        \o <<" ", "-", "-", "-", "\n">> \o page_text

\* Variant: the separator of an OCR page lacks the marker.
OcrSegmentUnmarked(page_num, ocr_text) ==
    <<"\n", "-", "-", "-", " ", "P", "a", "g", "e", " ">> \o Str(page_num + 1)
        \o <<" ", "-", "-", "-", "\n">> \o ocr_text

\* line 59: f"\n--- Page {page_num + 1} (OCR) ---\n{ocr_text}"
OcrSegment(page_num, ocr_text) ==
    <<"\n", "-", "-", "-", " ", "P", "a", "g", "e", " ">> \o Str(page_num + 1)
        \o <<" ", "(", "O", "C", "R", ")", " ", "-", "-", "-", "\n">> \o ocr_text

InLoop(p) == call[p].pc = "pages" /\ call[p].page_num < Len(call[p].doc)

\* Variant: the page text is put in front of the accumulated text.
PageNativePrepend(p) ==
    /\ InLoop(p)
    /\ LET page_text == call[p].doc[call[p].page_num + 1]
       IN  /\ ~NeedsOcr(page_text)
           /\ call' = [call EXCEPT ![p] =
                          [@ EXCEPT !.text = NativeSegment(call[p].page_num, page_text) \o @,
                                    !.page_num = @ + 1,
                                    !.resolved = Append(@, [ocr |-> FALSE,
                                                            text |-> page_text])]]
    /\ UNCHANGED <<store, now>>

\* lines 49-53, 60-61: a page whose native text is kept.
PageNative(p) ==
    /\ InLoop(p)
    /\ LET page_text == call[p].doc[call[p].page_num + 1]
       IN  /\ ~NeedsOcr(page_text)
           /\ call' = [call EXCEPT ![p] =
                          [@ EXCEPT !.text = @ \o NativeSegment(call[p].page_num, page_text),
                                    !.page_num = @ + 1,
                                    !.resolved = Append(@, [ocr |-> FALSE,
                                                            text |-> page_text])]]
    /\ UNCHANGED <<store, now>>

\* lines 49-59: a page that is rendered and read by OCR.
PageOcr(p, ocr_text) ==
    /\ InLoop(p)
    /\ NeedsOcr(call[p].doc[call[p].page_num + 1])
    /\ call' = [call EXCEPT ![p] =
                   [@ EXCEPT !.text = @ \o OcrSegment(call[p].page_num, ocr_text),
                             !.page_num = @ + 1, !.ocr_calls = @ + 1,
                             !.resolved = Append(@, [ocr |-> TRUE,
                                                     text |-> ocr_text])]]
    /\ UNCHANGED <<store, now>>

\* Variant: a page whose OCR raises is skipped and the loop goes on.
PageOcrFailsSkipsPage(p) ==
    /\ InLoop(p)
    /\ NeedsOcr(call[p].doc[call[p].page_num + 1])
    /\ call' = [call EXCEPT ![p] = [@ EXCEPT !.ocr_calls = @ + 1, !.page_num = @ + 1]]
    /\ UNCHANGED <<store, now>>

\* line 58 raising (render or recognition error): re-raised at line 69, caught at 209.
PageOcrFails(p) ==
    /\ InLoop(p)
    /\ NeedsOcr(call[p].doc[call[p].page_num + 1])
    /\ Return(p, [call[p] EXCEPT !.ocr_calls = @ + 1], ErrorResponse("ocr error"))
    /\ UNCHANGED <<store, now>>

\* lines 50-51 raising (corrupt page).
PageLoadFails(p) ==
    /\ InLoop(p)
    /\ Return(p, call[p], ErrorResponse("corrupt page"))
    /\ UNCHANGED <<store, now>>

\* Variant: the update leaves processed_at out.
UpdateDataNoStamp(raw_text, t) ==
    [raw_text |-> Some(raw_text), upload_status |-> Some("completed"),
     processed_at |-> None]

\* Variant: the update writes the text but leaves the status untouched.
UpdateDataStatusKept(raw_text, t) ==
    [raw_text |-> Some(raw_text), upload_status |-> Some("processing"),
     processed_at |-> Some(IsoFormat(t))]

\* lines 190-194
UpdateData(raw_text, t) ==
    [raw_text |-> Some(raw_text), upload_status |-> Some("completed"),
     processed_at |-> Some(IsoFormat(t))]

ExtractionDone(p) == call[p].pc = "pages" /\ call[p].page_num = Len(call[p].doc)

\* lines 63-65, 185-207: extraction returned; the update is issued and succeeds.
Update(p) ==
    /\ ExtractionDone(p)
    /\ LET raw_text    == call[p].text
           update_data == UpdateData(raw_text, now)
           id          == call[p].contract_id[1]
           c == [call[p] EXCEPT !.writes = @ + 1, !.update_data = Some(update_data),
                                !.rows = Some(Cardinality(StoreSelect(store, id)))]
       IN  /\ store' = StoreUpdate(store, id, update_data)
           /\ Return(p, c, Response(200, TRUE, Some(<<"Extraction successful!">>),
                                    None, Some(Len(raw_text))))
    /\ UNCHANGED now

\* line 197 raising (store write error), caught at line 209.  The request may
\* or may not have been applied by the store before the error surfaced.
UpdateFails(p, applied) ==
    /\ ExtractionDone(p)
    /\ LET update_data == UpdateData(call[p].text, now)
           id          == call[p].contract_id[1]
           c == [call[p] EXCEPT !.writes = @ + 1, !.update_data = Some(update_data)]
       IN  /\ store' = IF applied THEN StoreUpdate(store, id, update_data) ELSE store
           /\ Return(p, c, ErrorResponse("store write error"))
    /\ UNCHANGED now

(* --------------------------- environment ------------------------------ *)
Tick ==
    /\ now < MaxTime
    /\ now' = now + 1
    /\ UNCHANGED <<store, call>>

\* An upstream actor removes a contract row.
UpstreamDelete(id) ==
    /\ \E r \in store : r.id = id
    /\ store' = {r \in store : r.id # id}
    /\ UNCHANGED <<now, call>>

\* An upstream actor moves a pending contract to processing.
UpstreamSubmit(id) ==
    /\ \E r \in store : r.id = id /\ r.upload_status = Some("pending")
    /\ store' = {IF r.id = id THEN [r EXCEPT !.upload_status = Some("processing")] ELSE r
                    : r \in store}
    /\ UNCHANGED <<now, call>>

(* -------------------------- specifications ---------------------------- *)
PriorText == <<"o", "l", "d">>

\* Rows as upstream systems leave them: content only with a terminal status.
InitRows ==
    {Row("c1", path, status, raw, at) :
        path \in Paths, status \in Statuses,
        raw \in {None, Some(PriorText)}, at \in {None, Some(IsoFormat(0))}}

WellFormed(r) ==
    /\ (r.raw_text # None) <=> (r.upload_status \in {Some("completed"), Some("failed")})
    /\ (r.processed_at # None) <=> (r.raw_text # None)

Init ==
    /\ store \in {{}} \cup {{r} : r \in {x \in InitRows : WellFormed(x)}}
    /\ now = 0
    /\ call = [p \in Procs |-> Idle]

Step(p) ==
    \/ \E id \in TriggerIds, hint \in TriggerHints : Receive(p, id, hint)
    \/ Select(p)
    \/ SelectFails(p)
    \/ \E d \in Docs : Download(p, d)
    \/ \E e \in {"download error", "unreadable document"} : DownloadFails(p, e)
    \/ PageNative(p)
    \/ \E t \in OcrTexts : PageOcr(p, t)
    \/ PageOcrFails(p)
    \/ PageLoadFails(p)
    \/ Update(p)
    \/ \E applied \in BOOLEAN : UpdateFails(p, applied)

Env ==
    \/ Tick
    \/ UpstreamDelete("c1")
    \/ UpstreamSubmit("c1")

\* One worker handling one request at a time.
Next == Step(1) \/ Env

Spec == Init /\ [][Next]_vars

\* Two workers handling deliveries for contract c1 at the same time.
ConcDocs == {<<Native50>>, <<Native49>>}

ConcStep(p) ==
    \/ \E hint \in {None, Some("processing")} : Receive(p, Some("c1"), hint)
    \/ Select(p)
    \/ SelectFails(p)
    \/ \E d \in ConcDocs : Download(p, d)
    \/ DownloadFails(p, "download error")
    \/ PageNative(p)
    \/ \E t \in OcrTexts : PageOcr(p, t)
    \/ PageOcrFails(p)
    \/ PageLoadFails(p)
    \/ Update(p)
    \/ \E applied \in BOOLEAN : UpdateFails(p, applied)

NextConc == (\E p \in Procs : ConcStep(p)) \/ Env

SpecConc == Init /\ [][NextConc]_vars

\* One worker handling one request after the other, the rows left alone by
\* every other actor.
NextSeq == Step(1) \/ Tick

SpecSeq == Init /\ [][NextSeq]_vars

(* ------------------------------ claims -------------------------------- *)
Done(p) == call[p].pc = "done"
Resp(p) == call[p].response[1]

\* p takes the step that ends its invocation.
Returns(p) == call'[p] # call[p] /\ call'[p].pc = "done"

\* The invocation passed the gate: its select found a row in processing with a
\* storage reference.
Admitted(p) ==
    /\ call[p].contract # None
    /\ call[p].contract[1].upload_status = Some("processing")
    /\ call[p].contract[1].storage_path \notin {None, Some("")}

NoPipeline(p) ==
    /\ call[p].downloads = 0
    /\ call[p].ocr_calls = 0
    /\ call[p].page_num = 0
    /\ call[p].text = <<>>

\* C1: every admitted invocation that ends in a failure has issued a store
\* write with upload_status = failed, a diagnostic raw_text and a processed_at
\* stamp.
C1_FailureIsRecorded ==
    \A p \in Procs :
        (Done(p) /\ Admitted(p) /\ ~Resp(p).success) =>
            /\ call[p].update_data # None
            /\ call[p].update_data[1].upload_status = Some("failed")
            /\ call[p].update_data[1].raw_text # None
            /\ call[p].update_data[1].processed_at # None

\* C2: a trigger with an identifier and a hint that is given and is not
\* "processing" ends in a skip reported as success, with no store write, no
\* download and no extraction, whatever the stored status is.
C2_HintSkip ==
    \A p \in Procs :
        (/\ Done(p)
         /\ call[p].contract_id \notin {None, Some("")}
         /\ call[p].upload_status \notin {None, Some(""), Some("processing")}) =>
            /\ Resp(p).code = 200
            /\ Resp(p).success
            /\ Resp(p).message =
                   Some(<<"Skipped - webhook status is ", call[p].upload_status[1]>>)
            /\ call[p].writes = 0
            /\ NoPipeline(p)

C2_Witness ==
    /\ Done(1)
    /\ call[1].contract_id = Some("c1")
    /\ call[1].upload_status = Some("completed")
    /\ \E r \in store : r.id = "c1" /\ r.upload_status = Some("processing")
    /\ Resp(1).success

\* C3: an invocation whose select finds a row whose stored status is not
\* "processing" returns a skip, issues no write, download or OCR, and its
\* returning step leaves the store as it was.
C3_StoredStatusSkip ==
    [][\A p \in Procs :
        (/\ Returns(p)
         /\ call'[p].result \notin {None, Some({})}
         /\ call'[p].contract[1].upload_status # Some("processing")) =>
            /\ call'[p].response[1].code = 200
            /\ call'[p].response[1].success
            /\ call'[p].response[1].message =
                   Some(<<"Skipped - database status is ", ShowStatus(call'[p].contract)>>)
            /\ call'[p].writes = 0
            /\ call'[p].downloads = 0
            /\ call'[p].ocr_calls = 0
            /\ call'[p].text = <<>>
            /\ store' = store]_vars

C3_Witness ==
    /\ Done(1)
    /\ call[1].reads = 1
    /\ call[1].contract # None
    /\ call[1].contract[1].upload_status = Some("completed")
    /\ call[1].contract[1].storage_path = Some("https://blob/c1.pdf")
    /\ call[1].contract[1] \in store
    /\ Resp(1).success

\* C4: when extraction has succeeded, the invocation's next step issues exactly
\* one update for its contract carrying raw_text = the extracted text,
\* upload_status = completed and processed_at = the clock reading; every
\* matching row takes these values; a success outcome with a text length is
\* returned only by such a step, and the length is that of the raw_text sent.
C4_SuccessWrite ==
    [][\A p \in Procs :
        /\ (ExtractionDone(p) /\ call'[p] # call[p]) =>
              /\ call'[p].writes = 1
              /\ call'[p].update_data =
                     Some([raw_text |-> Some(call[p].text),
                           upload_status |-> Some("completed"),
                           processed_at |-> Some(IsoFormat(now))])
              /\ call'[p].response[1].success =>
                     \A r \in store' : r.id = call[p].contract_id[1] =>
                         /\ r.raw_text = Some(call[p].text)
                         /\ r.upload_status = Some("completed")
                         /\ r.processed_at = Some(IsoFormat(now))
        /\ (Returns(p) /\ call'[p].response[1].text_length # None) =>
              /\ ExtractionDone(p)
              /\ call'[p].response[1].success
              /\ call'[p].response[1].text_length =
                     Some(Len(call'[p].update_data[1].raw_text[1]))]_vars

C4_Witness ==
    /\ Done(1)
    /\ Resp(1).success
    /\ call[1].page_num = 2
    /\ call[1].ocr_calls = 1
    /\ now = 1
    /\ \E r \in store :
          /\ r.id = "c1"
          /\ r.raw_text = Some(call[1].text)
          /\ r.processed_at = Some(IsoFormat(1))
          /\ Resp(1).text_length = Some(Len(r.raw_text[1]))
\* The row of contract c1 is in processing and has a storage reference.
RowAdmissible(id) ==
    \E r \in store :
        /\ r.id = id
        /\ r.upload_status = Some("processing")
        /\ r.storage_path \notin {None, Some("")}

\* C5: the gate gives no mutual exclusion.  A select that finds the row in
\* processing admits the invocation whatever the other invocation is doing, and
\* an admitted invocation's successful update overwrites every matching row
\* whatever its status has become, so that two concurrent deliveries can both
\* be admitted, both extract and both write, the later write winning.
C5_NoMutualExclusion ==
    [][\A p \in Procs :
        /\ (/\ call[p].pc = "select"
            /\ call'[p] # call[p]
            /\ call'[p].result # None
            /\ RowAdmissible(call[p].contract_id[1])) =>
                call'[p].pc = "download"
        /\ (ExtractionDone(p) /\ Returns(p) /\ call'[p].response[1].success) =>
                /\ Cardinality(store') = Cardinality(store)
                /\ \A r \in store' : r.id = call[p].contract_id[1] =>
                       /\ r.raw_text = call'[p].update_data[1].raw_text
                       /\ r.upload_status = call'[p].update_data[1].upload_status
                       /\ r.processed_at = call'[p].update_data[1].processed_at]_vars

\* Both invocations were admitted for c1, both extracted, both updated one row,
\* and the row holds the text of invocation 2, not that of invocation 1.
C5_Witness ==
    /\ \A p \in Procs :
          /\ Done(p)
          /\ Admitted(p)
          /\ call[p].contract_id = Some("c1")
          /\ call[p].page_num = 1
          /\ call[p].writes = 1
          /\ call[p].rows = Some(1)
          /\ Resp(p).success
    /\ call[1].update_data[1].raw_text # call[2].update_data[1].raw_text
    /\ call[1].update_data[1].processed_at # call[2].update_data[1].processed_at
    /\ \E r \in store :
          /\ r.id = "c1"
          /\ r.raw_text = call[2].update_data[1].raw_text
          /\ r.processed_at = call[2].update_data[1].processed_at

\* C6: in every row of the store, raw_text is non-null exactly when
\* upload_status is completed or failed.
C6_RawTextIffTerminal ==
    \A r \in store :
        (r.raw_text # None) <=> (r.upload_status \in {Some("completed"), Some("failed")})

\* A row that was in processing without content now carries what invocation 1 wrote.
C6_Witness ==
    /\ Done(1)
    /\ Admitted(1)
    /\ call[1].contract[1].raw_text = None
    /\ call[1].rows = Some(1)
    /\ \E r \in store :
          /\ r.id = "c1"
          /\ r.upload_status = Some("completed")
          /\ r.raw_text = call[1].update_data[1].raw_text

\* C7: an update after a successful extraction that affects zero rows is
\* surfaced as a failure, never reported as success.
C7_ZeroRowsIsFailure ==
    \A p \in Procs :
        (Done(p) /\ call[p].rows = Some(0)) => ~Resp(p).success

\* C8: an identifier that is given but matches no stored row ends in the
\* "not found" rejection with no store write, no download and no extraction.
C8_NotFound ==
    \A p \in Procs :
        (Done(p) /\ call[p].result = Some({})) =>
            /\ Resp(p).code = 404
            /\ ~Resp(p).success
            /\ Resp(p).error = Some("Contract not found")
            /\ call[p].writes = 0
            /\ NoPipeline(p)

C8_Witness ==
    /\ Done(1)
    /\ call[1].contract_id = Some("c2")
    /\ call[1].reads = 1
    /\ call[1].result = Some({})
    /\ store # {}
    /\ Resp(1).code = 404

\* C9: a trigger without a contract identifier ends in the "bad request"
\* outcome before any lookup: no store read, no store write, no download and
\* no extraction.
C9_MissingId ==
    \A p \in Procs :
        (Done(p) /\ call[p].contract_id \in {None, Some("")}) =>
            /\ Resp(p).code = 400
            /\ ~Resp(p).success
            /\ Resp(p).error = Some("contract_id is required")
            /\ call[p].reads = 0
            /\ call[p].writes = 0
            /\ NoPipeline(p)

C9_Witness ==
    /\ Done(1)
    /\ call[1].contract_id = None
    /\ call[1].upload_status = Some("processing")
    /\ RowAdmissible("c1")
    /\ Resp(1).code = 400

\* C10: an invocation whose select finds a row in processing without a storage
\* reference ends in the "no source" bad request, with no store write, no
\* download and no extraction.
C10_NoSource ==
    \A p \in Procs :
        (/\ Done(p)
         /\ call[p].result \notin {None, Some({})}
         /\ call[p].contract[1].upload_status = Some("processing")
         /\ call[p].contract[1].storage_path \in {None, Some("")}) =>
            /\ Resp(p).code = 400
            /\ ~Resp(p).success
            /\ Resp(p).error = Some("No storage_path found")
            /\ call[p].writes = 0
            /\ NoPipeline(p)

C10_Witness ==
    /\ Done(1)
    /\ call[1].contract # None
    /\ call[1].contract[1].upload_status = Some("processing")
    /\ call[1].contract[1].storage_path = None
    /\ call[1].contract[1] \in store
    /\ Resp(1).error = Some("No storage_path found")

(* ------------------- reading the text artifact back ------------------- *)
SeparatorStart == <<"\n", "-", "-", "-", " ", "P", "a", "g", "e", " ">>
NativeTail == <<" ", "-", "-", "-", "\n">>
OcrTail == <<" ", "(", "O", "C", "R", ")", " ", "-", "-", "-", "\n">>
Digits == {"0", "1", "2", "3", "4", "5", "6", "7", "8", "9"}

StartsWith(s, prefix) ==
    Len(s) >= Len(prefix) /\ SubSeq(s, 1, Len(prefix)) = prefix

Drop(s, n) == SubSeq(s, n + 1, Len(s))

\* The positions of a text at which a page separator begins.
SeparatorAt(text) ==
    {i \in 1..Len(text) : StartsWith(Drop(text, i - 1), SeparatorStart)}

DigitValue(c) == CHOOSE d \in 0..9 : Digit(d) = c

\* The length of the run of decimal digits a text begins with.
DigitRun(s) ==
    IF s = <<>> \/ s[1] \notin Digits THEN 0
    ELSE SetMin({i \in 1..Len(s) : i = Len(s) \/ s[i + 1] \notin Digits})

RECURSIVE NatOf(_)
NatOf(ds) ==
    IF ds = <<>> THEN 0
    ELSE 10 * NatOf(SubSeq(ds, 1, Len(ds) - 1)) + DigitValue(ds[Len(ds)])

\* One segment (separator line and body) read back: its page number, whether
\* its separator carries the OCR marker, and its body.  A segment whose
\* separator line is malformed has number -1.
ReadSegment(seg) ==
    LET rest == Drop(seg, Len(SeparatorStart))
        n    == DigitRun(rest)
        tail == Drop(rest, n)
    IN  IF n = 0 THEN [number |-> -1, ocr |-> FALSE, body |-> seg]
        ELSE IF StartsWith(tail, OcrTail)
            THEN [number |-> NatOf(SubSeq(rest, 1, n)), ocr |-> TRUE,
                  body |-> Drop(tail, Len(OcrTail))]
        ELSE IF StartsWith(tail, NativeTail)
            THEN [number |-> NatOf(SubSeq(rest, 1, n)), ocr |-> FALSE,
                  body |-> Drop(tail, Len(NativeTail))]
        ELSE [number |-> -1, ocr |-> FALSE, body |-> seg]

\* The segments of a text, in the order they stand in it.  Text in front of
\* the first separator is reported as a malformed segment.
RECURSIVE ReadSegments(_)
ReadSegments(text) ==
    IF text = <<>> THEN <<>>
    ELSE LET later == {i \in SeparatorAt(text) : i > 1}
             stop  == IF later = {} THEN Len(text) + 1 ELSE SetMin(later)
             head  == SubSeq(text, 1, stop - 1)
         IN  <<IF 1 \in SeparatorAt(text) THEN ReadSegment(head)
                 ELSE [number |-> -1, ocr |-> FALSE, body |-> head]>>
                 \o ReadSegments(Drop(text, stop - 1))

\* The invocation ended while OCR of the current page was raising.
OcrFailed(p) == Done(p) /\ Resp(p).error = Some("ocr error")

OcrPages(pages) == Cardinality({k \in 1..Len(pages) : pages[k].ocr})

\* C11: a page is read by OCR exactly when its whitespace-trimmed native text
\* is shorter than 50; OCR is called once for each such page and for no other;
\* in the text the body of such a page is the OCR output, and the body of any
\* other page is its native text.
C11_OcrIffShort ==
    \A p \in Procs :
        LET c    == call[p]
            segs == ReadSegments(c.text)
        IN  /\ Len(c.resolved) = c.page_num
            /\ Len(segs) = c.page_num
            /\ \A k \in 1..Len(c.resolved) :
                  /\ c.resolved[k].ocr <=> (Len(Strip(c.doc[k])) < 50)
                  /\ c.resolved[k].ocr => c.resolved[k].text \in OcrTexts
                  /\ ~c.resolved[k].ocr => c.resolved[k].text = c.doc[k]
                  /\ segs[k].body = c.resolved[k].text
            /\ c.ocr_calls = OcrPages(c.resolved) + (IF OcrFailed(p) THEN 1 ELSE 0)
            /\ OcrFailed(p) => Len(Strip(c.doc[c.page_num + 1])) < 50

\* A two-page document: page 1 padded to 51 characters of which 49 remain
\* after trimming (OCR), page 2 with exactly 50 (native); both are persisted.
C11_Witness ==
    /\ Done(1)
    /\ Resp(1).success
    /\ call[1].doc = <<NativePadded, Native50>>
    /\ call[1].ocr_calls = 1
    /\ call[1].update_data # None
    /\ ReadSegments(call[1].update_data[1].raw_text[1])[1].body \in OcrTexts
    /\ ReadSegments(call[1].update_data[1].raw_text[1])[2].body = Native50

\* C12: the text of a document of N pages carries the resolved page texts in
\* ascending page order: read back, its separators number 1..N with no page
\* missing or repeated, and the k-th body is the resolved text of page k.
C12_PageOrder ==
    \A p \in Procs :
        (ExtractionDone(p) \/ call[p].update_data # None) =>
            LET text == IF call[p].update_data # None
                          THEN call[p].update_data[1].raw_text[1] ELSE call[p].text
                segs == ReadSegments(text)
            IN  /\ Len(segs) = Len(call[p].doc)
                /\ \A k \in 1..Len(segs) :
                      /\ segs[k].number = k
                      /\ segs[k].body = call[p].resolved[k].text

\* Page 1 native and page 2 by OCR: both stand in the update in that order.
C12_Witness ==
    /\ Done(1)
    /\ call[1].update_data # None
    /\ call[1].doc = <<Native50, Native49>>
    /\ ReadSegments(call[1].update_data[1].raw_text[1])[1].body = Native50
    /\ ReadSegments(call[1].update_data[1].raw_text[1])[2].body \in OcrTexts

PageErrors == {Some("ocr error"), Some("corrupt page")}

\* C13: a failure while a page is processed, or an unreadable document, ends
\* the extraction there: the invocation returns an error without text, the
\* page counter stays at the failing page, and no update is issued; an update
\* that is issued always carries every page of the document.
C13_FailFast ==
    \A p \in Procs :
        /\ (Done(p) /\ Resp(p).error \in PageErrors \cup {Some("unreadable document")}) =>
              /\ Resp(p).code = 500
              /\ ~Resp(p).success
              /\ Resp(p).text_length = None
              /\ call[p].writes = 0
              /\ call[p].update_data = None
              /\ Resp(p).error \in PageErrors =>
                    /\ call[p].page_num < Len(call[p].doc)
                    /\ Len(call[p].resolved) = call[p].page_num
        /\ call[p].update_data # None =>
              /\ call[p].page_num = Len(call[p].doc)
              /\ Len(ReadSegments(call[p].update_data[1].raw_text[1])) = Len(call[p].doc)

\* OCR of page 2 raised after page 1 had been accumulated; nothing was
\* written and the row is still in processing without content.
C13_Witness ==
    /\ OcrFailed(1)
    /\ Len(call[1].doc) = 2
    /\ call[1].page_num = 1
    /\ call[1].text # <<>>
    /\ call[1].writes = 0
    /\ \E r \in store :
          /\ r.id = "c1"
          /\ r.upload_status = Some("processing")
          /\ r.raw_text = None

\* C14: OCR of a page runs under a retry of 2 attempts, so an OCR error ends
\* the invocation only after the second attempt on that page has failed.
C14_OcrRetriedOnce ==
    \A p \in Procs :
        OcrFailed(p) => call[p].ocr_calls = OcrPages(call[p].resolved) + 2

HorizontalSpace == {" ", "\t"}

\* A text holds a run of n characters of the set S.
HasRun(text, S, n) ==
    \E i \in 1..(Len(text) - n + 1) : \A j \in i..(i + n - 1) : text[j] \in S

\* C15: the text that is persisted has been normalized: it holds no run of 3
\* or more newlines and no run of 2 or more horizontal whitespace characters.
C15_PersistedTextNormalized ==
    \A p \in Procs :
        call[p].update_data # None =>
            /\ ~HasRun(call[p].update_data[1].raw_text[1], {"\n"}, 3)
            /\ ~HasRun(call[p].update_data[1].raw_text[1], HorizontalSpace, 2)

\* C16: an invocation reads the store at most once and writes it at most
\* once; a write is issued only after the read, the download and the whole
\* extraction, only by an invocation whose read returned a row in processing
\* with a storage reference, and never with upload_status pending or processing.
C16_OneReadOneWrite ==
    \A p \in Procs :
        /\ call[p].reads <= 1
        /\ call[p].writes <= 1
        /\ (call[p].update_data # None) <=> (call[p].writes = 1)
        /\ call[p].downloads >= 1 => call[p].reads = 1
        /\ call[p].writes = 1 =>
              /\ call[p].reads = 1
              /\ call[p].downloads = 1
              /\ call[p].page_num = Len(call[p].doc)
              /\ Len(call[p].resolved) = Len(call[p].doc)
              /\ Admitted(p)
              /\ call[p].update_data[1].upload_status
                     \notin {Some("pending"), Some("processing")}

C16_Witness ==
    /\ Done(1)
    /\ call[1].reads = 1
    /\ call[1].downloads = 1
    /\ call[1].writes = 1
    /\ call[1].page_num = 2
    /\ call[1].rows = Some(1)
    /\ call[1].update_data[1].upload_status = Some("completed")

\* The response is one of the two skip outcomes.
IsSkip(response) ==
    /\ response.code = 200
    /\ response.success
    /\ response.message # None
    /\ response.message[1][1] \in {"Skipped - webhook status is ",
                                   "Skipped - database status is "}

\* The row of contract id was completed by an invocation of the handler.
CompletedByHandler(id) ==
    \E r \in store :
        /\ r.id = id
        /\ r.upload_status = Some("completed")
        /\ r.raw_text # Some(PriorText)

\* A step changes the store only by taking a row that is in processing and
\* has no content yet to completed.
WritesOnce ==
    store' # store =>
        /\ \A r \in store : r \notin store' =>
               r.upload_status = Some("processing") /\ r.raw_text = None
        /\ \A r \in store' : r \notin store => r.upload_status = Some("completed")

\* C17 as stated: in a sequence of invocations that do not overlap, with no
\* other actor changing the row, at most one invocation writes the row, and
\* once an invocation has completed it every later trigger for the contract
\* returns a skip outcome and leaves the row unchanged.
C17_LaterTriggersSkip ==
    [][/\ WritesOnce
       /\ \A p \in Procs :
             (/\ Returns(p)
              /\ call'[p].contract_id # None
              /\ CompletedByHandler(call'[p].contract_id[1])) =>
                 /\ IsSkip(call'[p].response[1])
                 /\ store' = store]_vars

\* C17 as amended: as above, but a later trigger returns a skip outcome or,
\* when the store read itself raises, the 500 error outcome; in both cases the
\* invocation issues no write, no download and no extraction and the row is
\* unchanged.
C17_LaterTriggersSkipOrReadError ==
    [][/\ WritesOnce
       /\ \A p \in Procs :
             (/\ Returns(p)
              /\ call'[p].contract_id # None
              /\ CompletedByHandler(call'[p].contract_id[1])) =>
                 /\ \/ IsSkip(call'[p].response[1])
                    \/ /\ call'[p].response[1] = ErrorResponse("store read error")
                       /\ call'[p].result = None
                 /\ call'[p].writes = 0
                 /\ call'[p].downloads = 0
                 /\ call'[p].ocr_calls = 0
                 /\ store' = store]_vars

\* A trigger without hint was skipped on the stored status of a row that an
\* earlier invocation had completed.
C17_Witness ==
    /\ Done(1)
    /\ call[1].contract_id = Some("c1")
    /\ call[1].upload_status = None
    /\ call[1].reads = 1
    /\ CompletedByHandler("c1")
    /\ call[1].contract[1] \in store
    /\ Resp(1).message = Some(<<"Skipped - database status is ", "completed">>)

\* C18: the stored status is checked before the storage reference: a row that
\* is not in processing and has no storage reference yields the skip outcome,
\* and the "no source" rejection is returned only for rows in processing.
C18_StatusBeforeSource ==
    \A p \in Procs :
        /\ (/\ Done(p)
            /\ call[p].result \notin {None, Some({})}
            /\ call[p].contract[1].upload_status # Some("processing")
            /\ call[p].contract[1].storage_path \in {None, Some("")}) =>
               /\ IsSkip(Resp(p))
               /\ Resp(p).error = None
        /\ (Done(p) /\ Resp(p).error = Some("No storage_path found")) =>
               /\ call[p].contract # None
               /\ call[p].contract[1].upload_status = Some("processing")

C18_Witness ==
    /\ Done(1)
    /\ call[1].contract # None
    /\ call[1].contract[1].upload_status = Some("pending")
    /\ call[1].contract[1].storage_path = None
    /\ IsSkip(Resp(1))

\* C19: the text of a document of N pages is N segments; the k-th begins with
\* the separator line carrying the page number k, and the separator carries
\* the OCR marker exactly when the page was read by OCR; a document of no
\* pages gives the empty text, which is sent with upload_status completed.
C19_SegmentLayout ==
    \A p \in Procs :
        (ExtractionDone(p) \/ call[p].update_data # None) =>
            LET text == IF call[p].update_data # None
                          THEN call[p].update_data[1].raw_text[1] ELSE call[p].text
                segs == ReadSegments(text)
            IN  /\ Len(segs) = Len(call[p].doc)
                /\ \A k \in 1..Len(segs) :
                      /\ segs[k].number = k
                      /\ segs[k].ocr <=> call[p].resolved[k].ocr
                /\ Len(call[p].doc) = 0 =>
                      /\ text = <<>>
                      /\ call[p].update_data # None =>
                            call[p].update_data[1].upload_status = Some("completed")

C19_Witness ==
    /\ Done(1)
    /\ Resp(1).success
    /\ call[1].doc = <<Native49, Native50>>
    /\ call[1].rows = Some(1)
    /\ ReadSegments(call[1].update_data[1].raw_text[1])[1].ocr
    /\ ~ReadSegments(call[1].update_data[1].raw_text[1])[2].ocr
    /\ ReadSegments(call[1].update_data[1].raw_text[1])[2].number = 2

\* A document without pages was persisted as completed with the empty text.
C19_EmptyDocumentPersisted ==
    /\ Done(1)
    /\ Resp(1).text_length = Some(0)
    /\ call[1].doc = <<>>
    /\ \E r \in store :
          r.id = "c1" /\ r.upload_status = Some("completed") /\ r.raw_text = Some(<<>>)

=============================================================================
